---------------------------- MODULE Spec2Model ----------------------------
(***************************************************************************)
(* EXIF-Extract (src/main.py): main() reads a URL, get_image() downloads   *)
(* and opens the image, extract_and_print_data() prints the EXIF tags of   *)
(* the image grouped by the categories of the exif_tags dictionary.        *)
(*                                                                         *)
(* Everything that is printed is kept in `out`, one entry per print call.  *)
(* A printed text is a sequence of strings; the characters that the code   *)
(* computes (upper-cased category names, decoded and formatted tag values) *)
(* are kept one character per element.                                     *)
(***************************************************************************)
EXTENDS Integers, Sequences, FiniteSets, TLC

VARIABLES pc, url, response, image, fetches, reports,
          exif_tags, exif_data, ci, trace, out

\* pc         where the program is: "input", "get", "raise_for_status",
\*            "open" (get_image), "main", "extract", "categories", and the
\*            ends "error", "no_exif", "done", "crashed"
\* url        what the user typed (line 78)
\* response   the answer of requests.get (line 62)
\* image      what get_image returned: an Image or a message (line 79)
\* fetches    number of calls of requests.get
\* reports    number of calls of extract_and_print_data
\* exif_tags  the dictionary built by main (lines 84-256)
\* exif_data  what image._getexif() returned (line 18)
\* ci         index of the category the loop of line 41 is at
\* trace      the categories visited so far, each emitted or skipped
\* out        the texts printed so far
vars == <<pc, url, response, image, fetches, reports,
          exif_tags, exif_data, ci, trace, out>>

(***************************************************************************)
(* Bounds of the model.                                                    *)
(***************************************************************************)
\* Largest number of tags in the EXIF dictionary of a modelled image.
MaxTags == 3

(***************************************************************************)
(* Characters.                                                             *)
(***************************************************************************)
\* The printable ASCII characters, code points 32 to 126 (the grave accent,
\* which a TLA+ string cannot hold, by the name of its code point).
Printable ==
    << " ", "!", "\"", "#", "$", "%", "&", "'", "(", ")", "*", "+",
       ",", "-", ".", "/", "0", "1", "2", "3", "4", "5", "6", "7",
       "8", "9", ":", ";", "<", "=", ">", "?", "@", "A", "B", "C",
       "D", "E", "F", "G", "H", "I", "J", "K", "L", "M", "N", "O",
       "P", "Q", "R", "S", "T", "U", "V", "W", "X", "Y", "Z", "[",
       "\\", "]", "^", "_", "U+0060", "a", "b", "c", "d", "e", "f", "g",
       "h", "i", "j", "k", "l", "m", "n", "o", "p", "q", "r", "s",
       "t", "u", "v", "w", "x", "y", "z", "{", "|", "}", "~" >>

HexDigits == <<"0", "1", "2", "3", "4", "5", "6", "7",
               "8", "9", "a", "b", "c", "d", "e", "f">>

IsPrintable(cp) == cp >= 32 /\ cp <= 126

\* n in hexadecimal, at least `width` digits.
RECURSIVE Hex(_, _)
Hex(n, width) ==
    IF n < 16 /\ width <= 1
    THEN HexDigits[n + 1]
    ELSE Hex(n \div 16, width - 1) \o HexDigits[(n % 16) + 1]

\* One character of a Python str, from its code point.  A character outside
\* printable ASCII is written as the name of its code point.
Chr(cp) == IF IsPrintable(cp) THEN Printable[cp - 31] ELSE "U+" \o Hex(cp, 4)

\* A Python str, one character per element, from its code points.
Chars(cps) == [i \in 1..Len(cps) |-> Chr(cps[i])]

\* str.upper() on one character (ASCII letters).
UpperChar(c) ==
    IF \E i \in 66..91 : Printable[i] = c
    THEN Printable[(CHOOSE i \in 66..91 : Printable[i] = c) - 32]
    ELSE c

\* Faulty variant of Upper: the header is printed without .upper().
UpperIdentity(s) == s

\* str.upper(): category.upper() of line 43.
Upper(s) == [i \in 1..Len(s) |-> UpperChar(s[i])]

(***************************************************************************)
(* Raw tag values, as image._getexif() hands them out.  A value is a       *)
(* record [kind, data]; data is a sequence of integers: the bytes of a     *)
(* bytes object, the code points of a str, the integer itself, numerator   *)
(* and denominator of a rational, the elements of a tuple.                 *)
(***************************************************************************)
BytesValue(bs)      == [kind |-> "bytes",    data |-> bs]
StrValue(cps)       == [kind |-> "str",      data |-> cps]
IntValue(n)         == [kind |-> "int",      data |-> <<n>>]
RationalValue(n, d) == [kind |-> "rational", data |-> <<n, d>>]
TupleValue(ns)      == [kind |-> "tuple",    data |-> ns]

\* isinstance(value, bytes), line 31.
IsBytes(value) == value.kind = "bytes"

(***************************************************************************)
(* bytes.decode(): strict UTF-8.  Utf8Decode(bs) is the sequence of code   *)
(* points, or <<-1>> when the decoder raises UnicodeDecodeError.           *)
(***************************************************************************)
IsCont(b) == b >= 128 /\ b <= 191

\* Number of bytes of the UTF-8 sequence that starts with lead byte b;
\* 0 when b cannot start a sequence.
SeqLen(b) ==
    IF b <= 127 THEN 1
    ELSE IF b >= 194 /\ b <= 223 THEN 2
    ELSE IF b >= 224 /\ b <= 239 THEN 3
    ELSE IF b >= 240 /\ b <= 244 THEN 4
    ELSE 0

\* The code point of the sequence that starts at bs[i], -1 when it is
\* invalid (truncated, bad continuation byte, overlong form, surrogate,
\* beyond U+10FFFF).
CodePointAt(bs, i) ==
    LET b == bs[i]
        n == SeqLen(b)
    IN  IF n = 0 \/ i + n - 1 > Len(bs) THEN -1
        ELSE IF n = 1 THEN b
        ELSE IF \E k \in 1..(n - 1) : ~IsCont(bs[i + k]) THEN -1
        ELSE IF n = 2 THEN (b - 192) * 64 + (bs[i + 1] - 128)
        ELSE IF n = 3 THEN
            LET cp == (b - 224) * 4096 + (bs[i + 1] - 128) * 64
                      + (bs[i + 2] - 128)
            IN  IF cp < 2048 \/ (cp >= 55296 /\ cp <= 57343) THEN -1 ELSE cp
        ELSE
            LET cp == (b - 240) * 262144 + (bs[i + 1] - 128) * 4096
                      + (bs[i + 2] - 128) * 64 + (bs[i + 3] - 128)
            IN  IF cp < 65536 \/ cp > 1114111 THEN -1 ELSE cp

Utf8Decode(bs) ==
    LET from[i \in 1..(Len(bs) + 1)] ==
            IF i > Len(bs) THEN <<>>
            ELSE IF CodePointAt(bs, i) = -1 THEN <<-1>>
            ELSE IF from[i + SeqLen(bs[i])] = <<-1>> THEN <<-1>>
            ELSE <<CodePointAt(bs, i)>> \o from[i + SeqLen(bs[i])]
    IN  from[1]

\* Line 33: the exception value.decode() raises, "None" when it returns.
DecodeException(bs) ==
    IF Utf8Decode(bs) = <<-1>> THEN "UnicodeDecodeError" ELSE "None"

(***************************************************************************)
(* str(value), as the built-in types and PIL's IFDRational define it.      *)
(***************************************************************************)
\* One byte inside the repr of a bytes object quoted with `quote`.
ReprByte(b, quote) ==
    IF b = 92 THEN <<"\\", "\\">>
    ELSE IF b = quote THEN <<"\\", Chr(b)>>
    ELSE IF b = 9  THEN <<"\\", "t">>
    ELSE IF b = 10 THEN <<"\\", "n">>
    ELSE IF b = 13 THEN <<"\\", "r">>
    ELSE IF IsPrintable(b) THEN <<Chr(b)>>
    ELSE <<"\\", "x", HexDigits[(b \div 16) + 1], HexDigits[(b % 16) + 1]>>

RECURSIVE ReprBytes(_, _)
ReprBytes(bs, quote) ==
    IF bs = <<>> THEN <<>>
    ELSE ReprByte(Head(bs), quote) \o ReprBytes(Tail(bs), quote)

\* str(b"..."): the literal b'...', quoted with " when the bytes hold a '
\* and no ".
StrOfBytes(bs) ==
    LET has(q) == \E i \in 1..Len(bs) : bs[i] = q
        quote  == IF has(39) /\ ~has(34) THEN 34 ELSE 39
    IN  <<"b", Chr(quote)>> \o ReprBytes(bs, quote) \o <<Chr(quote)>>

\* str(n) of a non-negative integer: its decimal digits.
RECURSIVE Digits(_)
Digits(n) ==
    IF n < 10 THEN <<Chr(48 + n)>>
    ELSE Digits(n \div 10) \o <<Chr(48 + (n % 10))>>

StrOfInt(n) == IF n < 0 THEN <<"-">> \o Digits(-n) ELSE Digits(n)

\* The digits after the decimal point of r/d (r < d), for a quotient whose
\* decimal expansion ends.
RECURSIVE Fraction(_, _)
Fraction(r, d) ==
    IF r = 0 THEN <<>>
    ELSE <<Chr(48 + ((r * 10) \div d))>> \o Fraction((r * 10) % d, d)

\* str(IFDRational(n, d)) is str(float(n / d)); a zero denominator makes
\* the value nan.  Modelled for n >= 0 and quotients whose decimal
\* expansion ends.
StrOfRational(n, d) ==
    IF d = 0 THEN <<"n", "a", "n">>
    ELSE Digits(n \div d) \o <<".">>
         \o (IF n % d = 0 THEN <<"0">> ELSE Fraction(n % d, d))

RECURSIVE JoinInts(_)
JoinInts(ns) ==
    IF ns = <<>> THEN <<>>
    ELSE IF Len(ns) = 1 THEN StrOfInt(ns[1])
    ELSE StrOfInt(ns[1]) \o <<",", " ">> \o JoinInts(Tail(ns))

\* str of a tuple of integers: (1, 2, 3), and (1,) for a single element.
StrOfTuple(ns) ==
    <<"(">> \o JoinInts(ns) \o (IF Len(ns) = 1 THEN <<",">> ELSE <<>>) \o <<")">>

Str(value) ==
    CASE value.kind = "bytes"    -> StrOfBytes(value.data)
      [] value.kind = "str"      -> Chars(value.data)
      [] value.kind = "int"      -> StrOfInt(value.data[1])
      [] value.kind = "rational" -> StrOfRational(value.data[1], value.data[2])
      [] value.kind = "tuple"    -> StrOfTuple(value.data)

(***************************************************************************)
(* print_decoded_exif(name, value), lines 29-37.  The result is            *)
(* [raised, text]: raised when an exception leaves the function, text      *)
(* what it printed otherwise.                                              *)
(***************************************************************************)
\* Faulty variant of ExceptClause: the handler names the wrong exception.
ExceptUnicodeEncodeError(exc) == exc = "UnicodeEncodeError"

\* Line 34: the exceptions the except clause catches.
ExceptClause(exc) == exc = "UnicodeDecodeError"

\* Lines 31-35: the value that is formatted into the line.  A bytes value
\* is decoded; when decoding raises UnicodeDecodeError the value becomes
\* str(value).  Any other value is formatted as str(value) by the f-string.
Normalize(value) ==
    IF IsBytes(value)
    THEN LET exc == DecodeException(value.data)
         IN  IF exc = "None"
             THEN [raised |-> FALSE, text |-> Chars(Utf8Decode(value.data))]
             ELSE IF ExceptClause(exc)
             THEN [raised |-> FALSE, text |-> Str(value)]
             ELSE [raised |-> TRUE,  text |-> <<>>]
    ELSE [raised |-> FALSE, text |-> Str(value)]

\* Line 37: print(f"  → {name}: {value}").
PrintDecodedExif(name, value) ==
    LET v == Normalize(value)
    IN  IF v.raised
        THEN [raised |-> TRUE,  text |-> <<>>]
        ELSE [raised |-> FALSE, text |-> <<"  → ", name, ": ">> \o v.text]

(***************************************************************************)
(* The exif_tags dictionary of main(), lines 84-256.  A dict keeps the     *)
(* order in which its keys were written, so each category is a sequence    *)
(* of [name, tag] and the dictionary a sequence of [category, tags].       *)
(***************************************************************************)
\* exif_tags["General Informations"] (main.py lines 85-116): (name, tag) pairs in insertion order.
GeneralInformationsTags ==
    << [name |-> "ImageWidth", tag |-> 256],
       [name |-> "ImageLength", tag |-> 257],
       [name |-> "BitsPerSample", tag |-> 258],
       [name |-> "Compression", tag |-> 259],
       [name |-> "PhotometricInterpretation", tag |-> 262],
       [name |-> "ImageDescription", tag |-> 270],
       [name |-> "Make", tag |-> 271],
       [name |-> "Model", tag |-> 272],
       [name |-> "StripOffsets", tag |-> 273],
       [name |-> "Orientation", tag |-> 274],
       [name |-> "SamplesPerPixel", tag |-> 277],
       [name |-> "RowsPerStrip", tag |-> 278],
       [name |-> "StripByteCounts", tag |-> 279],
       [name |-> "XResolution", tag |-> 282],
       [name |-> "YResolution", tag |-> 283],
       [name |-> "PlanarConfiguration", tag |-> 284],
       [name |-> "ResolutionUnit", tag |-> 296],
       [name |-> "TransferFunction", tag |-> 301],
       [name |-> "Software", tag |-> 305],
       [name |-> "DateTime", tag |-> 306],
       [name |-> "Artist", tag |-> 315],
       [name |-> "WhitePoint", tag |-> 318],
       [name |-> "PrimaryChromaticities", tag |-> 319],
       [name |-> "JPEGInterchangeFormat", tag |-> 513],
       [name |-> "JPEGInterchangeFormatLength", tag |-> 514],
       [name |-> "YCbCrCoefficients", tag |-> 529],
       [name |-> "YCbCrSubSampling", tag |-> 530],
       [name |-> "YCbCrPositioning", tag |-> 531],
       [name |-> "ReferenceBlackWhite", tag |-> 532],
       [name |-> "Copyright", tag |-> 33432] >>

\* exif_tags["Camera Settings"] (main.py lines 117-177): (name, tag) pairs in insertion order.
CameraSettingsTags ==
    << [name |-> "ExposureTime", tag |-> 33434],
       [name |-> "FNumber", tag |-> 33437],
       [name |-> "ExposureProgram", tag |-> 34850],
       [name |-> "SpectralSensitivity", tag |-> 34852],
       [name |-> "ISOSpeedRatings", tag |-> 34855],
       [name |-> "OECF", tag |-> 34856],
       [name |-> "ExifVersion", tag |-> 36864],
       [name |-> "DateTimeOriginal", tag |-> 36867],
       [name |-> "DateTimeDigitized", tag |-> 36868],
       [name |-> "ComponentsConfiguration", tag |-> 37121],
       [name |-> "CompressedBitsPerPixel", tag |-> 37122],
       [name |-> "ShutterSpeedValue", tag |-> 37377],
       [name |-> "ApertureValue", tag |-> 37378],
       [name |-> "BrightnessValue", tag |-> 37379],
       [name |-> "ExposureBiasValue", tag |-> 37380],
       [name |-> "MaxApertureValue", tag |-> 37381],
       [name |-> "SubjectDistance", tag |-> 37382],
       [name |-> "MeteringMode", tag |-> 37383],
       [name |-> "LightSource", tag |-> 37384],
       [name |-> "Flash", tag |-> 37385],
       [name |-> "FocalLength", tag |-> 37386],
       [name |-> "SubjectArea", tag |-> 37396],
       [name |-> "MakerNote", tag |-> 37500],
       [name |-> "UserComment", tag |-> 37510],
       [name |-> "SubsecTime", tag |-> 37520],
       [name |-> "SubsecTimeOriginal", tag |-> 37521],
       [name |-> "SubsecTimeDigitized", tag |-> 37522],
       [name |-> "FlashpixVersion", tag |-> 40960],
       [name |-> "ColorSpace", tag |-> 40961],
       [name |-> "PixelXDimension", tag |-> 40962],
       [name |-> "PixelYDimension", tag |-> 40963],
       [name |-> "RelatedSoundFile", tag |-> 40964],
       [name |-> "FlashEnergy", tag |-> 41483],
       [name |-> "SpatialFrequencyResponse", tag |-> 41484],
       [name |-> "FocalPlaneXResolution", tag |-> 41486],
       [name |-> "FocalPlaneYResolution", tag |-> 41487],
       [name |-> "FocalPlaneResolutionUnit", tag |-> 41488],
       [name |-> "SubjectLocation", tag |-> 41492],
       [name |-> "ExposureIndex", tag |-> 41493],
       [name |-> "SensingMethod", tag |-> 41495],
       [name |-> "FileSource", tag |-> 41728],
       [name |-> "SceneType", tag |-> 41729],
       [name |-> "CFAPattern", tag |-> 41730],
       [name |-> "CustomRendered", tag |-> 41985],
       [name |-> "ExposureMode", tag |-> 41986],
       [name |-> "WhiteBalance", tag |-> 41987],
       [name |-> "DigitalZoomRatio", tag |-> 41988],
       [name |-> "FocalLengthIn35mmFilm", tag |-> 41989],
       [name |-> "SceneCaptureType", tag |-> 41990],
       [name |-> "GainControl", tag |-> 41991],
       [name |-> "Contrast", tag |-> 41992],
       [name |-> "Saturation", tag |-> 41993],
       [name |-> "Sharpness", tag |-> 41994],
       [name |-> "DeviceSettingDescription", tag |-> 41995],
       [name |-> "SubjectDistanceRange", tag |-> 41996],
       [name |-> "LensSpecification", tag |-> 42034],
       [name |-> "LensMake", tag |-> 42035],
       [name |-> "LensModel", tag |-> 42036],
       [name |-> "LensSerialNumber", tag |-> 42037] >>

\* exif_tags["GPS Information"] (main.py lines 178-210): (name, tag) pairs in insertion order.
GPSInformationTags ==
    << [name |-> "GPSVersionID", tag |-> 0],
       [name |-> "GPSLatitudeRef", tag |-> 1],
       [name |-> "GPSLatitude", tag |-> 2],
       [name |-> "GPSLongitudeRef", tag |-> 3],
       [name |-> "GPSLongitude", tag |-> 4],
       [name |-> "GPSAltitudeRef", tag |-> 5],
       [name |-> "GPSAltitude", tag |-> 6],
       [name |-> "GPSTimeStamp", tag |-> 7],
       [name |-> "GPSSatellites", tag |-> 8],
       [name |-> "GPSStatus", tag |-> 9],
       [name |-> "GPSMeasureMode", tag |-> 10],
       [name |-> "GPSDOP", tag |-> 11],
       [name |-> "GPSSpeedRef", tag |-> 12],
       [name |-> "GPSSpeed", tag |-> 13],
       [name |-> "GPSTrackRef", tag |-> 14],
       [name |-> "GPSTrack", tag |-> 15],
       [name |-> "GPSImgDirectionRef", tag |-> 16],
       [name |-> "GPSImgDirection", tag |-> 17],
       [name |-> "GPSMapDatum", tag |-> 18],
       [name |-> "GPSDestLatitudeRef", tag |-> 19],
       [name |-> "GPSDestLatitude", tag |-> 20],
       [name |-> "GPSDestLongitudeRef", tag |-> 21],
       [name |-> "GPSDestLongitude", tag |-> 22],
       [name |-> "GPSDestBearingRef", tag |-> 23],
       [name |-> "GPSDestBearing", tag |-> 24],
       [name |-> "GPSDestDistanceRef", tag |-> 25],
       [name |-> "GPSDestDistance", tag |-> 26],
       [name |-> "GPSProcessingMethod", tag |-> 27],
       [name |-> "GPSAreaInformation", tag |-> 28],
       [name |-> "GPSDateStamp", tag |-> 29],
       [name |-> "GPSDifferential", tag |-> 30] >>

\* exif_tags["Miscellaneous Information"] (main.py lines 211-216): (name, tag) pairs in insertion order.
MiscellaneousInformationTags ==
    << [name |-> "ImageUniqueID", tag |-> 42016],
       [name |-> "CameraOwnerName", tag |-> 42032],
       [name |-> "BodySerialNumber", tag |-> 42033],
       [name |-> "Gamma", tag |-> 42240] >>

\* exif_tags["Thumbnail Settings"] (main.py lines 217-248): (name, tag) pairs in insertion order.
ThumbnailSettingsTags ==
    << [name |-> "ThumbnailImageWidth", tag |-> 256],
       [name |-> "ThumbnailImageLength", tag |-> 257],
       [name |-> "ThumbnailBitsPerSample", tag |-> 258],
       [name |-> "ThumbnailCompression", tag |-> 259],
       [name |-> "ThumbnailPhotometricInterpretation", tag |-> 262],
       [name |-> "ThumbnailImageDescription", tag |-> 270],
       [name |-> "ThumbnailMake", tag |-> 271],
       [name |-> "ThumbnailModel", tag |-> 272],
       [name |-> "ThumbnailStripOffsets", tag |-> 273],
       [name |-> "ThumbnailOrientation", tag |-> 274],
       [name |-> "ThumbnailSamplesPerPixel", tag |-> 277],
       [name |-> "ThumbnailRowsPerStrip", tag |-> 278],
       [name |-> "ThumbnailStripByteCounts", tag |-> 279],
       [name |-> "ThumbnailXResolution", tag |-> 282],
       [name |-> "ThumbnailYResolution", tag |-> 283],
       [name |-> "ThumbnailPlanarConfiguration", tag |-> 284],
       [name |-> "ThumbnailResolutionUnit", tag |-> 296],
       [name |-> "ThumbnailTransferFunction", tag |-> 301],
       [name |-> "ThumbnailSoftware", tag |-> 305],
       [name |-> "ThumbnailDateTime", tag |-> 306],
       [name |-> "ThumbnailArtist", tag |-> 315],
       [name |-> "ThumbnailWhitePoint", tag |-> 318],
       [name |-> "ThumbnailPrimaryChromaticities", tag |-> 319],
       [name |-> "ThumbnailJPEGInterchangeFormat", tag |-> 513],
       [name |-> "ThumbnailJPEGInterchangeFormatLength", tag |-> 514],
       [name |-> "ThumbnailYCbCrCoefficients", tag |-> 529],
       [name |-> "ThumbnailYCbCrSubSampling", tag |-> 530],
       [name |-> "ThumbnailYCbCrPositioning", tag |-> 531],
       [name |-> "ThumbnailReferenceBlackWhite", tag |-> 532],
       [name |-> "ThumbnailCopyright", tag |-> 33432] >>

\* exif_tags["Additional Information"] (main.py lines 249-255): (name, tag) pairs in insertion order.
AdditionalInformationTags ==
    << [name |-> "InteroperabilityIndex", tag |-> 1],
       [name |-> "InteroperabilityVersion", tag |-> 2],
       [name |-> "RelatedImageFileFormat", tag |-> 4096],
       [name |-> "RelatedImageWidth", tag |-> 4097],
       [name |-> "RelatedImageLength", tag |-> 4098] >>

GeneralInformations ==
    <<"G", "e", "n", "e", "r", "a", "l", " ",
      "I", "n", "f", "o", "r", "m", "a", "t", "i", "o", "n", "s">>

CameraSettings ==
    <<"C", "a", "m", "e", "r", "a", " ", "S", "e", "t", "t", "i", "n", "g", "s">>

GPSInformation ==
    <<"G", "P", "S", " ", "I", "n", "f", "o", "r", "m", "a", "t", "i", "o", "n">>

MiscellaneousInformation ==
    <<"M", "i", "s", "c", "e", "l", "l", "a", "n", "e", "o", "u", "s", " ",
      "I", "n", "f", "o", "r", "m", "a", "t", "i", "o", "n">>

ThumbnailSettings ==
    <<"T", "h", "u", "m", "b", "n", "a", "i", "l", " ",
      "S", "e", "t", "t", "i", "n", "g", "s">>

AdditionalInformation ==
    <<"A", "d", "d", "i", "t", "i", "o", "n", "a", "l", " ",
      "I", "n", "f", "o", "r", "m", "a", "t", "i", "o", "n">>

ExifTags ==
    << [category |-> GeneralInformations,      tags |-> GeneralInformationsTags],
       [category |-> CameraSettings,           tags |-> CameraSettingsTags],
       [category |-> GPSInformation,           tags |-> GPSInformationTags],
       [category |-> MiscellaneousInformation, tags |-> MiscellaneousInformationTags],
       [category |-> ThumbnailSettings,        tags |-> ThumbnailSettingsTags],
       [category |-> AdditionalInformation,    tags |-> AdditionalInformationTags] >>

(***************************************************************************)
(* extract_and_print_data(image, exif_tags), lines 9-47.                   *)
(***************************************************************************)
\* What image._getexif() returns: None, or a dict from tag to value.
NoneExif      == [isNone |-> TRUE,  map |-> <<>>]
ExifDict(raw) == [isNone |-> FALSE, map |-> raw]

\* Faulty variant of Truthy: the test `exif_data is None` in place of
\* `not exif_data`, which lets an empty dict through.
TruthyNotNone(exif) == ~exif.isNone

\* Truth value of exif_data, line 20: None and the empty dict are false.
Truthy(exif) == ~exif.isNone /\ DOMAIN exif.map # {}

\* The text printed by lines 21-26.
NoExifMessage ==
    << "\n              No EXIF data found in the image.\n              Note that if the photo is from social media platforms,\n              they often remove EXIF data during the upload process\n              for privacy and data compression reasons.\n              " >>

\* Faulty variant of AnyTagPresent: the test `if exif_data` in place of the
\* any(...) over the tags of the category.
AnyTagInImage(tags, raw) == DOMAIN raw # {}

\* Line 42: any(tag in exif_data for tag in tags.values()).
AnyTagPresent(tags, raw) == \E i \in 1..Len(tags) : tags[i].tag \in DOMAIN raw

\* Line 43: the text of print(f"\n{category.upper()}").
Header(category) == <<"\n">> \o Upper(category)

\* Line 46: tag in exif_data.
TagPresent(tag, raw) == tag \in DOMAIN raw

\* Faulty variant of FieldLines: the pairs are walked in reverse order.
RECURSIVE FieldLinesReversed(_, _)
FieldLinesReversed(tags, raw) ==
    IF tags = <<>> THEN [raised |-> FALSE, lines |-> <<>>]
    ELSE LET rest == FieldLinesReversed(Tail(tags), raw)
         IN  IF ~(Head(tags).tag \in DOMAIN raw) THEN rest
             ELSE [raised |-> rest.raised,
                   lines  |-> rest.lines \o
                       <<PrintDecodedExif(Head(tags).name, raw[Head(tags).tag]).text>>]

\* Faulty variant of FieldLines: exif_data.get(tag) without the test of
\* line 46, so a pair whose tag is absent prints the placeholder None.
RECURSIVE FieldLinesWithPlaceholder(_, _)
FieldLinesWithPlaceholder(tags, raw) ==
    IF tags = <<>> THEN [raised |-> FALSE, lines |-> <<>>]
    ELSE LET rest == FieldLinesWithPlaceholder(Tail(tags), raw)
             text == IF Head(tags).tag \in DOMAIN raw
                     THEN PrintDecodedExif(Head(tags).name, raw[Head(tags).tag]).text
                     ELSE <<"  → ", Head(tags).name, ": ", "N", "o", "n", "e">>
         IN  [raised |-> rest.raised, lines |-> <<text>> \o rest.lines]

\* Lines 45-47: the texts printed for the pairs of one category, in the
\* order of the dict, up to the first pair whose printing raises.
RECURSIVE FieldLines(_, _)
FieldLines(tags, raw) ==
    IF tags = <<>> THEN [raised |-> FALSE, lines |-> <<>>]
    ELSE IF ~TagPresent(Head(tags).tag, raw) THEN FieldLines(Tail(tags), raw)
    ELSE LET p == PrintDecodedExif(Head(tags).name, raw[Head(tags).tag])
         IN  IF p.raised THEN [raised |-> TRUE, lines |-> <<>>]
             ELSE LET rest == FieldLines(Tail(tags), raw)
                  IN  [raised |-> rest.raised, lines |-> <<p.text>> \o rest.lines]

\* Faulty variant of CategoryOutput: the header is printed without the
\* test of line 42.
CategoryOutputAlwaysHeader(c, raw) ==
    LET f == FieldLines(c.tags, raw)
    IN  [raised |-> f.raised, lines |-> <<Header(c.category)>> \o f.lines]

\* Faulty variant of CategoryOutput: a tag listed under an earlier category
\* of the catalog is not printed again.
CategoryOutputDedup(c, raw) ==
    LET earlier == UNION { {ExifTags[i].tags[j].tag : j \in 1..Len(ExifTags[i].tags)} :
                           i \in {k \in 1..Len(ExifTags) :
                                     \E n \in (k + 1)..Len(ExifTags) : ExifTags[n] = c} }
        left == [t \in DOMAIN raw \ earlier |-> raw[t]]
    IN  IF \E i \in 1..Len(c.tags) : c.tags[i].tag \in DOMAIN left
        THEN LET f == FieldLines(c.tags, left)
             IN  [raised |-> f.raised, lines |-> <<Header(c.category)>> \o f.lines]
        ELSE [raised |-> FALSE, lines |-> <<>>]

\* Lines 42-47: everything one category prints.
CategoryOutput(c, raw) ==
    IF AnyTagPresent(c.tags, raw)
    THEN LET f == FieldLines(c.tags, raw)
         IN  [raised |-> f.raised, lines |-> <<Header(c.category)>> \o f.lines]
    ELSE [raised |-> FALSE, lines |-> <<>>]

(***************************************************************************)
(* The inputs of the model: what the user types, what the network and the  *)
(* image file answer.                                                      *)
(***************************************************************************)
\* A URL is kept as its parts: the scheme when it has one, then the rest.
Urls == { <<"www.example.com/image.png">>,
          <<"https://", "www.example.com/image.png">> }

HasScheme(u) == Len(u) = 2

StatusCodes == {200, 404}

Canon     == BytesValue(<<67, 97, 110, 111, 110>>)
Eos90D    == BytesValue(<<69, 79, 83, 32, 57, 48, 68>>)
BadBytes  == BytesValue(<<255, 254, 0, 1>>)
North     == StrValue(<<78>>)
Width     == IntValue(4000)
Exposure  == RationalValue(1, 200)
Bits      == TupleValue(<<8, 8, 8>>)

Values == {Canon, Eos90D, BadBytes, North, Width, Exposure, Bits}

\* Tags of the modelled images: 256, 271 and 272 are listed under General
\* Informations and Thumbnail Settings, 1 under GPS Information and
\* Additional Information, 37500 under Camera Settings, 42016 under
\* Miscellaneous Information, 50000 nowhere.
Keys == {1, 256, 271, 272, 37500, 42016, 50000}

\* The values a modelled image may hold under each tag.
ValuesOf(tag) ==
    CASE tag = 1     -> {North, BadBytes, Bits}
      [] tag = 256   -> {Width, Exposure, Canon}
      [] tag = 271   -> {Canon, BadBytes, North}
      [] tag = 272   -> {Eos90D, Width, Bits}
      [] tag = 37500 -> {BadBytes, Canon, Exposure}
      [] tag = 42016 -> {North, Exposure, Bits}
      [] tag = 50000 -> {Eos90D, North, Width}

\* The dicts of at most MaxTags of these tags.
RawMaps ==
    UNION { {raw \in [S -> Values] : \A t \in S : raw[t] \in ValuesOf(t)} :
            S \in {T \in SUBSET Keys : Cardinality(T) <= MaxTags} }

ExifResults == {NoneExif} \cup {ExifDict(raw) : raw \in RawMaps}

\* The value of `image` in main(): an Image, or the message get_image
\* returned instead.
AnImage(exif)    == [isImage |-> TRUE,  exif |-> exif,     message |-> <<>>]
Failure(message) == [isImage |-> FALSE, exif |-> NoneExif, message |-> message]

NoResponse == [status |-> 0]

(***************************************************************************)
(* The program.                                                            *)
(***************************************************************************)
Init ==
    /\ pc = "input"
    /\ url = <<>>
    /\ response = NoResponse
    /\ image = Failure(<<>>)
    /\ fetches = 0
    /\ reports = 0
    /\ exif_tags = <<>>
    /\ exif_data = NoneExif
    /\ ci = 0
    /\ trace = <<>>
    /\ out = <<>>

\* Line 78: url = input(...).
Input ==
    /\ pc = "input"
    /\ \E u \in Urls : url' = u
    /\ pc' = "get"
    /\ UNCHANGED <<response, image, fetches, reports, exif_tags, exif_data,
                   ci, trace, out>>

\* get_image returns a message: lines 66-71.
ReturnError(prefix, e) ==
    /\ image' = Failure(<<prefix, e>>)
    /\ pc' = "main"

\* Line 62: response = requests.get(url).  A URL without a scheme makes
\* requests raise MissingSchema, a RequestException.
RequestsGet ==
    /\ pc = "get"
    /\ fetches' = fetches + 1
    /\ \/ /\ ~HasScheme(url)
          /\ ReturnError("Error downloading the image: ", "MissingSchema")
          /\ UNCHANGED response
       \/ /\ HasScheme(url)
          /\ \E e \in {"ConnectionError", "Timeout"} :
                ReturnError("Error downloading the image: ", e)
          /\ UNCHANGED response
       \/ /\ HasScheme(url)
          /\ ReturnError("Unexpected error: ", "Exception")
          /\ UNCHANGED response
       \/ /\ HasScheme(url)
          /\ \E s \in StatusCodes : response' = [status |-> s]
          /\ pc' = "raise_for_status"
          /\ UNCHANGED image
    /\ UNCHANGED <<url, reports, exif_tags, exif_data, ci, trace, out>>

\* Line 63: response.raise_for_status() raises HTTPError, a
\* RequestException, for a 4xx or 5xx status.
RaiseForStatus ==
    /\ pc = "raise_for_status"
    /\ IF response.status >= 400
       THEN ReturnError("Error downloading the image: ", "HTTPError")
       ELSE pc' = "open" /\ UNCHANGED image
    /\ UNCHANGED <<url, response, fetches, reports, exif_tags, exif_data,
                   ci, trace, out>>

\* Line 64: return Image.open(BytesIO(response.content)).
ImageOpen ==
    /\ pc = "open"
    /\ \/ ReturnError("Error opening the image: ", "UnidentifiedImageError")
       \/ ReturnError("Unexpected error: ", "Exception")
       \/ \E exif \in ExifResults : image' = AnImage(exif) /\ pc' = "main"
    /\ UNCHANGED <<url, response, fetches, reports, exif_tags, exif_data,
                   ci, trace, out>>

\* Faulty variant of MainDispatch: the isinstance test of line 82 is
\* missing and the report is run on whatever get_image returned.
MainDispatchUnchecked ==
    /\ pc = "main"
    /\ exif_tags' = ExifTags
    /\ reports' = reports + 1
    /\ pc' = "extract"
    /\ UNCHANGED <<url, response, image, fetches, exif_data, ci, trace, out>>

\* Lines 79-82 and 258-260: main() with the value get_image returned.
MainDispatch ==
    /\ pc = "main"
    /\ \/ /\ image.isImage
          /\ exif_tags' = ExifTags
          /\ reports' = reports + 1
          /\ pc' = "extract"
          /\ UNCHANGED out
       \/ /\ ~image.isImage
          /\ out' = Append(out, image.message)
          /\ pc' = "error"
          /\ UNCHANGED <<exif_tags, reports>>
    /\ UNCHANGED <<url, response, image, fetches, exif_data, ci, trace>>

\* Lines 18-27 and 39: read the EXIF dictionary; without one, print the
\* message and return.
ExtractStart ==
    /\ pc = "extract"
    /\ exif_data' = image.exif
    /\ IF ~Truthy(image.exif)
       THEN /\ out' = Append(out, NoExifMessage)
            /\ pc' = "no_exif"
            /\ UNCHANGED ci
       ELSE /\ IF ~image.exif.isNone
               THEN pc' = "categories" /\ ci' = 1
               ELSE pc' = "done" /\ UNCHANGED ci
            /\ UNCHANGED out
    /\ UNCHANGED <<url, response, image, fetches, reports, exif_tags, trace>>

\* Faulty variant of Category: the function returns after the first
\* category it prints.
CategoryBreak ==
    /\ pc = "categories"
    /\ ci <= Len(exif_tags)
    /\ LET c == exif_tags[ci]
           r == CategoryOutput(c, exif_data.map)
       IN  /\ out' = out \o r.lines
           /\ trace' = Append(trace,
                  [category |-> ci,
                   emitted  |-> AnyTagPresent(c.tags, exif_data.map)])
           /\ pc' = IF r.lines # <<>> THEN "done" ELSE pc
    /\ ci' = ci + 1
    /\ UNCHANGED <<url, response, image, fetches, reports, exif_tags,
                   exif_data>>

\* Lines 41-47: one iteration of the loop over exif_tags.items().  An
\* exception that leaves print_decoded_exif ends the program.
Category ==
    /\ pc = "categories"
    /\ ci <= Len(exif_tags)
    /\ LET c == exif_tags[ci]
           r == CategoryOutput(c, exif_data.map)
       IN  /\ out' = out \o r.lines
           /\ trace' = Append(trace,
                  [category |-> ci,
                   emitted  |-> AnyTagPresent(c.tags, exif_data.map)])
           /\ pc' = IF r.raised THEN "crashed" ELSE pc
    /\ ci' = ci + 1
    /\ UNCHANGED <<url, response, image, fetches, reports, exif_tags,
                   exif_data>>

\* Line 41: the loop is exhausted, extract_and_print_data returns.
LoopEnd ==
    /\ pc = "categories"
    /\ ci > Len(exif_tags)
    /\ pc' = "done"
    /\ UNCHANGED <<url, response, image, fetches, reports, exif_tags,
                   exif_data, ci, trace, out>>

Next ==
    \/ Input
    \/ RequestsGet
    \/ RaiseForStatus
    \/ ImageOpen
    \/ MainDispatch
    \/ ExtractStart
    \/ Category
    \/ LoopEnd

Spec == Init /\ [][Next]_vars

(***************************************************************************)
(* Vocabulary of the properties.                                           *)
(***************************************************************************)
\* The header lines as they must appear on the terminal, one per category
\* of the catalog, in catalog order.
ExpectedHeaders ==
    << <<"\n", "G", "E", "N", "E", "R", "A", "L", " ", "I", "N", "F", "O", "R", "M", "A", "T", "I", "O", "N", "S">>,
       <<"\n", "C", "A", "M", "E", "R", "A", " ", "S", "E", "T", "T", "I", "N", "G", "S">>,
       <<"\n", "G", "P", "S", " ", "I", "N", "F", "O", "R", "M", "A", "T", "I", "O", "N">>,
       <<"\n", "M", "I", "S", "C", "E", "L", "L", "A", "N", "E", "O", "U", "S", " ", "I", "N", "F", "O", "R", "M", "A", "T", "I", "O", "N">>,
       <<"\n", "T", "H", "U", "M", "B", "N", "A", "I", "L", " ", "S", "E", "T", "T", "I", "N", "G", "S">>,
       <<"\n", "A", "D", "D", "I", "T", "I", "O", "N", "A", "L", " ", "I", "N", "F", "O", "R", "M", "A", "T", "I", "O", "N">> >>

Range(s) == {s[i] : i \in 1..Len(s)}

\* The tags and the field names a category lists.
TagsOf(i)  == {ExifTags[i].tags[j].tag  : j \in 1..Len(ExifTags[i].tags)}
NamesOf(i) == {ExifTags[i].tags[j].name : j \in 1..Len(ExifTags[i].tags)}

Categories == 1..Len(ExifTags)

\* A printed entry is a field line: indentation and arrow, name, separator.
IsFieldLine(line) == Len(line) >= 3 /\ line[1] = "  → " /\ line[3] = ": "

\* The field line of field `name` with the text `text` as its value.
Line(name, text) == <<"  → ", name, ": ">> \o text

\* The raw metadata map of the report under way.
Raw == exif_data.map

\* extract_and_print_data has read the raw map.
RawRead == pc \in {"no_exif", "categories", "done", "crashed"}

RawAbsentOrEmpty == exif_data.isNone \/ DOMAIN exif_data.map = {}

\* The report ran to the end of the catalog.
ReportDone == pc = "done"

\* The categories visited so far.
Visited == {trace[k].category : k \in 1..Len(trace)}

\* The positions in `out` of the field lines of category i.
LinesOf(i) ==
    {k \in 1..Len(out) : IsFieldLine(out[k]) /\ out[k][2] \in NamesOf(i)}

\* The pairs of category i whose tag is a key of the raw map.
PresentIn(i) ==
    {j \in 1..Len(ExifTags[i].tags) : ExifTags[i].tags[j].tag \in DOMAIN Raw}

\* The raw map of Scenario A.
ScenarioA == (271 :> Canon @@ 272 :> Eos90D)

(***************************************************************************)
(* C1.  Scenario A as stated: when the keys of the raw map are exactly     *)
(* {271, 272}, the report holds the GENERAL INFORMATIONS header and the    *)
(* lines of Make and Model, and no other category header.                  *)
(***************************************************************************)
\* C1 as stated (refuted by the Thumbnail Settings header).
C1_NoOtherHeader ==
    (ReportDone /\ DOMAIN Raw = {271, 272}) =>
        /\ ExpectedHeaders[1] \in Range(out)
        /\ Line("Make",  Normalize(Raw[271]).text) \in Range(out)
        /\ Line("Model", Normalize(Raw[272]).text) \in Range(out)
        /\ \A i \in Categories \ {1} : ExpectedHeaders[i] \notin Range(out)

\* C1, amended.  When the keys of the raw map are exactly {271, 272}, the
\* report is the GENERAL INFORMATIONS header with the lines of Make and
\* Model, followed by the THUMBNAIL SETTINGS header with the lines of
\* ThumbnailMake and ThumbnailModel (the same two tags are listed there),
\* and no other category header appears.
C1_ScenarioA ==
    /\ (ReportDone /\ DOMAIN Raw = {271, 272}) =>
          /\ out = << ExpectedHeaders[1],
                      Line("Make",  Normalize(Raw[271]).text),
                      Line("Model", Normalize(Raw[272]).text),
                      ExpectedHeaders[5],
                      Line("ThumbnailMake",  Normalize(Raw[271]).text),
                      Line("ThumbnailModel", Normalize(Raw[272]).text) >>
          /\ \A i \in Categories \ {1, 5} : ExpectedHeaders[i] \notin Range(out)
    /\ (ReportDone /\ Raw = ScenarioA) =>
          /\ out[2] = <<"  → ", "Make", ": ", "C", "a", "n", "o", "n">>
          /\ out[3] = <<"  → ", "Model", ": ", "E", "O", "S", " ", "9", "0", "D">>

C1_Witness ==
    /\ ReportDone
    /\ Raw = ScenarioA
    /\ Len(out) = 6
    /\ out[1] = ExpectedHeaders[1]
    /\ out[4] = ExpectedHeaders[5]

(***************************************************************************)
(* C2.  When image._getexif() gives None or an empty dict, the only thing  *)
(* printed is the no-metadata message, no category is visited, and the     *)
(* program ends there.                                                     *)
(***************************************************************************)
\* C2: once the raw map is read and is None or empty, the program is at the
\* no-metadata end with exactly the message printed.
C2_NoMetadata ==
    (RawRead /\ RawAbsentOrEmpty) =>
        /\ pc = "no_exif"
        /\ Len(out) = 1
        /\ Len(out[1]) = 1
        /\ out = <<NoExifMessage>>
        /\ trace = <<>>
        /\ ~ENABLED Next

C2_Witness ==
    /\ pc = "no_exif"
    /\ ~exif_data.isNone
    /\ DOMAIN exif_data.map = {}
    /\ out = <<NoExifMessage>>

(***************************************************************************)
(* C3.  For a non-empty raw map, a category none of whose tags is a key    *)
(* of the map prints neither its header nor a line of one of its fields.   *)
(***************************************************************************)
\* C3: no printed entry is the header of a category disjoint from the raw
\* map, or a field line of one of its names.
C3_DisjointCategorySilent ==
    (RawRead /\ DOMAIN Raw # {}) =>
        \A i \in Categories :
            (TagsOf(i) \cap DOMAIN Raw = {}) =>
                \A k \in 1..Len(out) :
                    /\ out[k] # ExpectedHeaders[i]
                    /\ ~(IsFieldLine(out[k]) /\ out[k][2] \in NamesOf(i))

C3_Witness ==
    /\ ReportDone
    /\ DOMAIN Raw = {37500}
    /\ Len(out) = 2
    /\ out[1] = ExpectedHeaders[2]

(***************************************************************************)
(* C4.  Every pair of a visited category whose tag is a key of the raw     *)
(* map prints the line "name: normalized value" (indented); the lines of   *)
(* a category stand between its header and the next header, in the order   *)
(* of the category's pairs in the catalog.                                 *)
(***************************************************************************)
HeaderPos(i) == CHOOSE k \in 1..Len(out) : out[k] = ExpectedHeaders[i]

\* The first entry after position k that is not a field line, or the end.
NextHeaderPos(k) ==
    IF \E n \in (k + 1)..Len(out) : ~IsFieldLine(out[n])
    THEN CHOOSE n \in (k + 1)..Len(out) :
             /\ ~IsFieldLine(out[n])
             /\ \A m \in (k + 1)..(n - 1) : IsFieldLine(out[m])
    ELSE Len(out) + 1

\* The line pair j of category i must print.
ExpectedLine(i, j) ==
    Line(ExifTags[i].tags[j].name, Normalize(Raw[ExifTags[i].tags[j].tag]).text)

BadBytesText ==
    <<"b", "'", "\\", "x", "f", "f", "\\", "x", "f", "e",
      "\\", "x", "0", "0", "\\", "x", "0", "1", "'">>

\* C5: no value makes Normalize raise, the report never crashes, and at the
\* end every present pair of every category has its line, the literal
\* b'...' form for bytes that do not decode.
C5_NormalizeTotal ==
    /\ pc # "crashed"
    /\ pc = "input" =>
          \A v \in Values :
              LET n == Normalize(v)
              IN  /\ ~n.raised
                  /\ Len(n.text) > 0
                  /\ v = BadBytes => n.text = BadBytesText
    /\ ReportDone =>
          \A i \in Categories : \A j \in PresentIn(i) :
              \E k \in LinesOf(i) :
                  /\ out[k][2] = ExifTags[i].tags[j].name
                  /\ Len(out[k]) > 3
                  /\ Raw[ExifTags[i].tags[j].tag] = BadBytes =>
                         out[k] = Line(ExifTags[i].tags[j].name, BadBytesText)

C5_Witness ==
    /\ ReportDone
    /\ DOMAIN Raw = {1, 37500}
    /\ Raw[37500] = BadBytes
    /\ Len(out) = 6
    /\ out[2] = Line("MakerNote", BadBytesText)
    /\ out[4][2] = "GPSLatitudeRef"
    /\ out[6][2] = "InteroperabilityIndex"

(***************************************************************************)
(* C6.  When get_image fails, main prints the one message get_image        *)
(* returned and extract_and_print_data is never called; the report runs    *)
(* only with an image; requests.get is called at most once.                *)
(***************************************************************************)
ErrorPrefixes ==
    {"Error downloading the image: ", "Error opening the image: ",
     "Unexpected error: "}

\* C6: at most one fetch; the report is called only with an image; after a
\* failure the output is the one message get_image returned and the
\* program has ended.
C6_AcquisitionFailure ==
    /\ fetches <= 1
    /\ reports <= 1
    /\ (reports > 0 \/ RawRead \/ pc = "extract") => image.isImage
    /\ (pc \in {"main", "error"} /\ ~image.isImage) =>
          /\ reports = 0
          /\ exif_tags = <<>>
          /\ trace = <<>>
          /\ Len(image.message) = 2
          /\ image.message[1] \in ErrorPrefixes
    /\ pc = "error" =>
          /\ ~image.isImage
          /\ out = <<image.message>>
          /\ ~ENABLED Next
    /\ (pc = "main" /\ ~image.isImage) => out = <<>>

C6_Witness ==
    /\ pc = "error"
    /\ fetches = 1
    /\ reports = 0
    /\ response.status = 404
    /\ out = << <<"Error downloading the image: ", "HTTPError">> >>

(***************************************************************************)
(* C7.  A pair whose tag is not a key of the raw map prints nothing: the   *)
(* number of field lines of a visited category is the number of its pairs  *)
(* whose tag is a key, and it is at least 1 when the header is printed.    *)
(***************************************************************************)
\* C7: a visited category has as many field lines as pairs whose tag is a
\* key, and at least one when its header is printed.
C7_NoPlaceholder ==
    \A i \in Visited :
        /\ Cardinality(LinesOf(i)) = Cardinality(PresentIn(i))
        /\ ExpectedHeaders[i] \in Range(out) => Cardinality(LinesOf(i)) >= 1

C7_Witness ==
    /\ ReportDone
    /\ DOMAIN Raw = {256}
    /\ Cardinality(LinesOf(1)) = 1
    /\ Len(ExifTags[1].tags) = 30
    /\ ExpectedHeaders[1] \in Range(out)

(***************************************************************************)
(* C8.  A tag that is a key of the raw map and is listed under two         *)
(* categories is printed by both: both headers appear, and each category   *)
(* prints its own line for the tag, with the same text for the value.      *)
(***************************************************************************)
NameOf(i, tag) ==
    ExifTags[i].tags[CHOOSE j \in 1..Len(ExifTags[i].tags) :
                         ExifTags[i].tags[j].tag = tag].name

\* C8: at the end of the report, a tag of the raw map listed under two
\* categories has both headers printed and one line under each name, with
\* the same value text.
C8_NoDeduplication ==
    ReportDone =>
        \A i \in Categories : \A j \in Categories \ {i} :
            \A tag \in TagsOf(i) \cap TagsOf(j) \cap DOMAIN Raw :
                /\ ExpectedHeaders[i] \in Range(out)
                /\ ExpectedHeaders[j] \in Range(out)
                /\ NameOf(i, tag) # NameOf(j, tag)
                /\ \E t \in {out[k] : k \in LinesOf(i)} :
                   \E u \in {out[k] : k \in LinesOf(j)} :
                      /\ t[2] = NameOf(i, tag)
                      /\ u[2] = NameOf(j, tag)
                      /\ SubSeq(t, 4, Len(t)) = SubSeq(u, 4, Len(u))
                      /\ SubSeq(t, 4, Len(t)) = Normalize(Raw[tag]).text

C8_Witness ==
    /\ ReportDone
    /\ DOMAIN Raw = {1, 256}
    /\ out[1] = ExpectedHeaders[1]
    /\ out[2][2] = "ImageWidth"
    /\ out[3] = ExpectedHeaders[3]
    /\ out[4][2] = "GPSLatitudeRef"
    /\ out[5] = ExpectedHeaders[5]
    /\ out[6][2] = "ThumbnailImageWidth"
    /\ out[7] = ExpectedHeaders[6]
    /\ out[8][2] = "InteroperabilityIndex"
    /\ Len(out) = 8

(***************************************************************************)
(* C9.  A report is one pass that ends: from its start it reaches the      *)
(* no-metadata end or the end of the catalog; the categories are visited   *)
(* once each, in catalog order, each one skipped or emitted; the headers   *)
(* printed are those of the emitted categories, in catalog order, none     *)
(* twice; the raw map and the catalog do not change on the way.            *)
(***************************************************************************)
\* The headers among the printed entries, in the order printed.
PrintedHeaders ==
    LET isHeader(line) == line \in Range(ExpectedHeaders)
    IN  SelectSeq(out, isHeader)

\* The headers of the categories the trace records as emitted.
EmittedHeaders ==
    LET emitted(v) == v.emitted
        e == SelectSeq(trace, emitted)
    IN  [k \in 1..Len(e) |-> ExpectedHeaders[e[k].category]]

\* C9 (shape): the trace lists the categories 1, 2, ... in order, all of
\* them at the end, none at the no-metadata end; a category is emitted
\* exactly when one of its tags is a key; the printed headers are those of
\* the emitted categories, in order.
C9_PassShape ==
    /\ \A k \in 1..Len(trace) : trace[k].category = k
    /\ pc = "categories" => Len(trace) = ci - 1
    /\ ReportDone => Len(trace) = Len(ExifTags)
    /\ pc = "no_exif" => (trace = <<>> /\ RawAbsentOrEmpty)
    /\ RawRead => PrintedHeaders = EmittedHeaders
    /\ \A k \in 1..Len(trace) :
          trace[k].emitted <=> (TagsOf(k) \cap DOMAIN Raw # {})

\* The pass cannot stop before its end: after the start comes the
\* no-metadata end or the loop, and in the loop the next category or the
\* end of the loop is always there to take.
C9_NotStuck ==
    /\ pc = "extract" => ENABLED ExtractStart
    /\ pc = "categories" =>
          /\ ci \in 1..(Len(exif_tags) + 1)
          /\ exif_tags = ExifTags
          /\ exif_data = image.exif
          /\ ~RawAbsentOrEmpty
          /\ ci = Len(exif_tags) + 1 => ENABLED LoopEnd
    /\ pc \in {"no_exif", "done"} => ~ENABLED Next

\* One step of the report leaves the raw map, the catalog and the image as
\* they are, and either visits the next category (ci advances by one, the
\* trace grows by one, what was printed stays) or ends the pass.
C9_Step ==
    (pc \in {"categories", "done", "no_exif"}) =>
        /\ pc = "categories"
        /\ exif_data' = exif_data
        /\ exif_tags' = exif_tags
        /\ image' = image
        /\ \/ /\ ci <= Len(exif_tags)
              /\ pc' = "categories"
              /\ ci' = ci + 1
              /\ Len(trace') = Len(trace) + 1
              /\ SubSeq(trace', 1, Len(trace)) = trace
              /\ SubSeq(out', 1, Len(out)) = out
           \/ /\ ci = Len(exif_tags) + 1
              /\ pc' = "done"
              /\ trace' = trace
              /\ out' = out

\* C9: the pass has this shape in every state, is never stuck before one
\* of its two ends, and each of its steps is a step forward that leaves
\* its inputs unchanged.
C9_SinglePass ==
    /\ [](C9_PassShape /\ C9_NotStuck)
    /\ [][C9_Step]_vars

C9_Witness ==
    /\ ReportDone
    /\ DOMAIN Raw = {1, 37500}
    /\ Len(trace) = 6
    /\ trace[1].emitted = FALSE
    /\ trace[2].emitted = TRUE
    /\ trace[3].emitted = TRUE
    /\ trace[4].emitted = FALSE
    /\ trace[5].emitted = FALSE
    /\ trace[6].emitted = TRUE
    /\ Len(PrintedHeaders) = 3

(***************************************************************************)
(* C10.  A non-empty raw map none of whose keys is listed in the catalog   *)
(* prints nothing at all, not even the no-metadata message; in general a   *)
(* key that is not in the catalog changes nothing of what is printed.      *)
(***************************************************************************)
Catalogued == UNION {TagsOf(i) : i \in Categories}

\* The raw map without the keys the catalog does not list.
Restricted(raw) == [t \in DOMAIN raw \cap Catalogued |-> raw[t]]

\* What the categories from i on print for the raw map.
RECURSIVE ReportFrom(_, _)
ReportFrom(i, raw) ==
    IF i > Len(ExifTags) THEN <<>>
    ELSE CategoryOutput(ExifTags[i], raw).lines \o ReportFrom(i + 1, raw)

\* C10: with a non-empty raw map the no-metadata message is never printed;
\* with no catalogued key nothing is printed; at the end the output is
\* the one of the raw map without its uncatalogued keys.
C10_UnknownKeysSilent ==
    (RawRead /\ DOMAIN Raw # {}) =>
        /\ pc # "no_exif"
        /\ (DOMAIN Raw \cap Catalogued = {}) => out = <<>>
        /\ ReportDone => out = ReportFrom(1, Restricted(Raw))

C10_Witness ==
    /\ ReportDone
    /\ DOMAIN Raw = {50000}
    /\ Len(trace) = 6
    /\ out = <<>>

=============================================================================
